---- MODULE Spec2Model ----
(***************************************************************************)
(* Model of src/server.py: the FastAPI gateway of the Meowseek widget.     *)
(*                                                                         *)
(* One HTTP request is followed through its dependency chain               *)
(*   get_api_key -> get_spotify_client -> route handler -> response,       *)
(* while the outside world moves between the steps: the cached OAuth token *)
(* may expire and the provider's device list may change.  The provider     *)
(* (spotipy.Spotify) and the OAuth collaborator (SpotifyOAuth) are          *)
(* external: every call to them may succeed, raise SpotifyException or      *)
(* raise some other exception.                                             *)
(*                                                                         *)
(* `calls` is the log of the outbound calls made on behalf of the request  *)
(* in flight and `handover` remembers what get_spotify_client read from    *)
(* the token cache; both are history variables, the handlers never read    *)
(* them.                                                                   *)
(***************************************************************************)
EXTENDS Integers, Sequences, FiniteSets, TLC

VARIABLES pc, route, api_key, device_id, code, sp, handover, calls, response,
          tokenCache, provDevices

vars == <<pc, route, api_key, device_id, code, sp, handover, calls, response,
          tokenCache, provDevices>>

reqVars == <<route, api_key, device_id, code>>

(* ---------------------------------------------------------------- bounds *)

\* Longest device list the provider returns.
MaxDevices == 2

\* Number of distinct access tokens the OAuth collaborator can issue.
MaxTokens == 2

(* ------------------------------------------------------------ value sets *)

\* Python's None (a missing header, an omitted device_id, a null device id).
None == "<None>"

\* API_KEY = os.getenv('API_KEY', 'default-api-key')
API_KEY == "default-api-key"

\* What the X-API-Key header can carry: nothing, a wrong key, the key.
HeaderValues == {None, "wrong", API_KEY}

CommandRoutes == {"play", "pause", "next", "previous"}

\* Routes declared with dependencies=[Depends(get_api_key)].
ProtectedRoutes == {"root", "device"} \cup CommandRoutes

\* Routes whose handler takes sp: Spotify = Depends(get_spotify_client).
ClientRoutes == {"device"} \cup CommandRoutes

Routes == ProtectedRoutes \cup {"auth", "callback"}

\* PlaybackRequest.device_id: str = None
RequestDeviceIds == {None, "dev1", "devX"}

\* Ids of the devices the provider knows; the provider's device objects are
\* untyped dicts and a device's id may be null.
ProviderDeviceIds == {None, "dev1"}

DeviceName(id) == IF id = "dev1" THEN "Kitchen" ELSE "Web Player"

DeviceType(id) == IF id = "dev1" THEN "Speaker" ELSE "Computer"

\* The device objects of sp.devices()['devices'].
Devices ==
    { [id |-> i, name |-> DeviceName(i), type |-> DeviceType(i), is_active |-> a] :
        i \in ProviderDeviceIds, a \in BOOLEAN }

DeviceLists == UNION { [1..n -> Devices] : n \in 0..MaxDevices }

Tokens == 1..MaxTokens

\* token_info as the handlers use it: the access token and whether
\* sp_oauth.is_token_expired(token_info) holds now.
TokenInfos == [access_token : Tokens, expired : BOOLEAN]

\* The authorization codes a caller can send to /callback.
Codes == {"good", "bad"}

\* How a call to an external collaborator can end.
Outcomes == {"ok", "SpotifyException", "Exception"}

NoResponse == [status |-> 0, body |-> [pending |-> TRUE]]

(* ------------------------------------------------------------ exceptions *)

HTTPException(status_code, detail) ==
    [type |-> "HTTPException", status_code |-> status_code, detail |-> detail]

\* The exception a failing collaborator call raises.
CollaboratorError(out) ==
    [type |-> out, status_code |-> 0,
     detail |-> IF out = "SpotifyException" THEN <<"provider message">>
                ELSE <<"connection error">>]

\* str(e) inside the f-strings of the except clauses.
str(e) ==
    IF e.type = "HTTPException"
    THEN <<IF e.status_code = 404 THEN "404: " ELSE "400: ">> \o e.detail
    ELSE e.detail

Return(body) == [kind |-> "return", body |-> body]

Raise(e) == [kind |-> "raise", exc |-> e]

Call(op, arg, out) == [op |-> op, arg |-> arg, out |-> out]

(* ------------------------------------------------------------ responses *)

\* FastAPI's rendering of a returned dict: 200 with the dict as the body.
ok_response(body) == [status |-> 200, body |-> body]

\* FastAPI's rendering of a raised HTTPException: its status and {"detail": ...}.
error_response(e) == [status |-> e.status_code, body |-> [detail |-> e.detail]]

render(result) ==
    IF result.kind = "return" THEN ok_response(result.body)
    ELSE error_response(result.exc)

(* ---------------------------------------------------------- dependencies *)

\* Faulty variant: a missing header is let through.
get_api_key_missing_ok(key) ==
    IF key # None /\ key # API_KEY
    THEN Raise(HTTPException(401, <<"Unauthorized. Invalid or missing API key.">>))
    ELSE Return(key)

\* def get_api_key(api_key): raise 401 unless api_key == API_KEY.
get_api_key(key) ==
    IF key # API_KEY
    THEN Raise(HTTPException(401, <<"Unauthorized. Invalid or missing API key.">>))
    ELSE Return(key)

\* Faulty variant: the expiry of the cached token is not looked at.
get_spotify_client_no_expiry(token_info) ==
    IF token_info = <<>>
    THEN Raise(HTTPException(401, <<"Unauthorized. Please authenticate.">>))
    ELSE Return(<<token_info[1].access_token>>)

\* Faulty variant: the expiry test is inverted, a fresh token is refused.
get_spotify_client_inverted(token_info) ==
    IF token_info = <<>> \/ ~token_info[1].expired
    THEN Raise(HTTPException(401, <<"Unauthorized. Please authenticate.">>))
    ELSE Return(<<token_info[1].access_token>>)

\* def get_spotify_client(): token_info is what sp_oauth.get_cached_token()
\* returned, <<>> for no token; the result is Spotify(auth=access_token).
get_spotify_client(token_info) ==
    IF token_info = <<>> \/ token_info[1].expired
    THEN Raise(HTTPException(401, <<"Unauthorized. Please authenticate.">>))
    ELSE Return(<<token_info[1].access_token>>)

(* -------------------------------------------------------- device lookups *)

\* any(device["id"] == request.device_id for device in devices)
any_device_matches(devices, did) ==
    \E k \in 1..Len(devices) : devices[k].id = did

\* next((device for device in devices if device["id"] == request.device_id), None),
\* <<>> standing for None.
first_matching_device(devices, did) ==
    LET hits == { k \in 1..Len(devices) : devices[k].id = did }
    IN  IF hits = {} THEN <<>>
        ELSE <<devices[CHOOSE k \in hits : \A j \in hits : k <= j]>>

\* active_device.get('is_active', False)
get_is_active(device) ==
    IF "is_active" \in DOMAIN device THEN device.is_active ELSE FALSE

\* The except clauses every handler ends with: SpotifyException -> 400,
\* any other Exception (an HTTPException raised in the try block is one) -> 500.
except_clauses(result) ==
    IF result.kind = "return" THEN result
    ELSE IF result.exc.type = "SpotifyException"
    THEN Raise(HTTPException(400, <<"Spotify error: ">> \o str(result.exc)))
    ELSE Raise(HTTPException(500, <<"Server error: ">> \o str(result.exc)))

(* -------------------------------------------------------------- handlers *)
(* A handler is an operator of what the outside world answers: devOut is   *)
(* how sp.devices() ends, devices the list it returns, callOut how the     *)
(* playback call ends.  Its value is the calls it made and how it ended.   *)

Handled(made, result) == [calls |-> made, result |-> except_clauses(result)]

\* Faulty variant: a failed start_playback is attempted a second time.
play_song_retry(devOut, devices, did, callOut) ==
    IF devOut # "ok"
    THEN Handled(<<Call("devices", None, devOut)>>, Raise(CollaboratorError(devOut)))
    ELSE IF ~any_device_matches(devices, did)
    THEN Handled(<<Call("devices", None, "ok")>>,
                 Raise(HTTPException(404, <<"Device not found.">>)))
    ELSE IF ~get_is_active(first_matching_device(devices, did)[1])
    THEN Handled(<<Call("devices", None, "ok")>>,
                 Raise(HTTPException(400, <<"Device is not active.">>)))
    ELSE IF callOut = "ok"
    THEN Handled(<<Call("devices", None, "ok"), Call("start_playback", did, "ok")>>,
                 Return([message |-> "Playback started."]))
    ELSE Handled(<<Call("devices", None, "ok"), Call("start_playback", did, callOut),
                   Call("start_playback", did, "ok")>>,
                 Return([message |-> "Playback started."]))

\* async def play_song(request, sp)
play_song(devOut, devices, did, callOut) ==
    IF devOut # "ok"
    THEN Handled(<<Call("devices", None, devOut)>>, Raise(CollaboratorError(devOut)))
    ELSE IF ~any_device_matches(devices, did)
    THEN Handled(<<Call("devices", None, "ok")>>,
                 Raise(HTTPException(404, <<"Device not found.">>)))
    ELSE LET active_device == first_matching_device(devices, did)
         IN  IF active_device = <<>> \/ ~get_is_active(active_device[1])
             THEN Handled(<<Call("devices", None, "ok")>>,
                          Raise(HTTPException(400, <<"Device is not active.">>)))
             ELSE Handled(<<Call("devices", None, "ok"),
                            Call("start_playback", did, callOut)>>,
                          IF callOut = "ok"
                          THEN Return([message |-> "Playback started."])
                          ELSE Raise(CollaboratorError(callOut)))

\* The shape pause_song, next_song and previous_song share: validate the
\* device id against the fetched list, then issue the one provider call.
validate_then_call(devOut, devices, did, callOut, op, message) ==
    IF devOut # "ok"
    THEN Handled(<<Call("devices", None, devOut)>>, Raise(CollaboratorError(devOut)))
    ELSE IF ~any_device_matches(devices, did)
    THEN Handled(<<Call("devices", None, "ok")>>,
                 Raise(HTTPException(404, <<"Device not found.">>)))
    ELSE Handled(<<Call("devices", None, "ok"), Call(op, did, callOut)>>,
                 IF callOut = "ok" THEN Return([message |-> message])
                 ELSE Raise(CollaboratorError(callOut)))

\* Faulty variant: pause insists on an active device, as play does.
pause_song_requires_active(devOut, devices, did, callOut) ==
    IF devOut # "ok"
    THEN Handled(<<Call("devices", None, devOut)>>, Raise(CollaboratorError(devOut)))
    ELSE IF ~any_device_matches(devices, did)
    THEN Handled(<<Call("devices", None, "ok")>>,
                 Raise(HTTPException(404, <<"Device not found.">>)))
    ELSE IF ~get_is_active(first_matching_device(devices, did)[1])
    THEN Handled(<<Call("devices", None, "ok")>>,
                 Raise(HTTPException(400, <<"Device is not active.">>)))
    ELSE Handled(<<Call("devices", None, "ok"), Call("pause_playback", did, callOut)>>,
                 IF callOut = "ok" THEN Return([message |-> "Playback paused."])
                 ELSE Raise(CollaboratorError(callOut)))

\* async def pause_song(request, sp)
pause_song(devOut, devices, did, callOut) ==
    validate_then_call(devOut, devices, did, callOut,
                       "pause_playback", "Playback paused.")

\* async def next_song(request, sp)
next_song(devOut, devices, did, callOut) ==
    validate_then_call(devOut, devices, did, callOut,
                       "next_track", "Skipped to the next song.")

\* Faulty variant: the device list is not fetched, the call is issued blindly.
previous_song_no_fetch(devOut, devices, did, callOut) ==
    Handled(<<Call("previous_track", did, callOut)>>,
            IF callOut = "ok"
            THEN Return([message |-> "Went back to the previous song."])
            ELSE Raise(CollaboratorError(callOut)))

\* async def previous_song(request, sp)
previous_song(devOut, devices, did, callOut) ==
    validate_then_call(devOut, devices, did, callOut,
                       "previous_track", "Went back to the previous song.")

\* [{"id": ..., "name": ..., "type": ...} for device in devices['devices']]
device_list(devices) ==
    [k \in 1..Len(devices) |->
        [id |-> devices[k].id, name |-> devices[k].name, type |-> devices[k].type]]

\* Faulty variant: an empty list is answered under the devices key.
get_devices_empty_list(devOut, devices) ==
    IF devOut # "ok"
    THEN Handled(<<Call("devices", None, devOut)>>, Raise(CollaboratorError(devOut)))
    ELSE Handled(<<Call("devices", None, "ok")>>,
                 Return([devices |-> device_list(devices)]))

\* async def get_devices(sp)
get_devices(devOut, devices) ==
    IF devOut # "ok"
    THEN Handled(<<Call("devices", None, devOut)>>, Raise(CollaboratorError(devOut)))
    ELSE IF devices = <<>>
    THEN Handled(<<Call("devices", None, "ok")>>,
                 Return([message |-> "No devices found."]))
    ELSE Handled(<<Call("devices", None, "ok")>>,
                 Return([devices |-> device_list(devices)]))

\* The except clause of callback: whatever the try block raised, its own
\* HTTPException included, becomes a 400.
callback_except(result) ==
    IF result.kind = "return" THEN result
    ELSE Raise(HTTPException(400, <<"Error during token exchange: ">>
                                    \o str(result.exc)))

\* Faulty variant: a falsy token_info is not checked for.
callback_no_empty_check(exchange) ==
    LET try == IF exchange = "raise" THEN Raise(CollaboratorError("Exception"))
               ELSE Return(exchange)
    IN  IF callback_except(try).kind = "raise" THEN callback_except(try)
        ELSE Return([message |->
                        "Authentication successful. You can now use the API."])

\* async def callback(code): exchange is how sp_oauth.get_access_token(code)
\* ends: "token" (a token_info is returned), "empty" (a falsy token_info is
\* returned) or "raise" (it raises).
callback(exchange) ==
    LET try == IF exchange = "raise" THEN Raise(CollaboratorError("Exception"))
               ELSE IF exchange = "empty"
               THEN Raise(HTTPException(400, <<"Failed to get access token.">>))
               ELSE Return(exchange)
    IN  IF callback_except(try).kind = "raise" THEN callback_except(try)
        ELSE Return([message |->
                        "Authentication successful. You can now use the API."])

(* ---------------------------------------------------------- collaborators *)

\* sp_oauth.get_cached_token(): the cached token_info, <<>> for none.
get_cached_token == tokenCache

\* sp.devices()['devices'] when the call succeeds: the provider's live list.
sp_devices == provDevices

\* The token_info a successful sp_oauth.get_access_token(code) returns and
\* caches: a token that is not the one cached before, not yet expired.
FreshTokenInfos ==
    { <<[access_token |-> t, expired |-> FALSE]>> :
        t \in { u \in Tokens : tokenCache = <<>> \/ tokenCache[1].access_token # u } }

(* ----------------------------------------------------------------- state *)

Init ==
    /\ pc = "idle"
    /\ route = None
    /\ api_key = None
    /\ device_id = None
    /\ code = None
    /\ sp = <<>>
    /\ handover = <<>>
    /\ calls = <<>>
    /\ response = NoResponse
    /\ tokenCache = <<>>
    /\ provDevices \in DeviceLists

(* --------------------------------------------------------------- actions *)

\* A request arrives.  Inputs a route does not read are left at None.
Receive ==
    /\ pc = "idle"
    /\ \E r \in Routes :
        /\ route' = r
        /\ api_key' \in IF r \in ProtectedRoutes THEN HeaderValues ELSE {None}
        /\ device_id' \in IF r \in CommandRoutes THEN RequestDeviceIds ELSE {None}
        /\ code' \in IF r = "callback" THEN Codes ELSE {None}
        /\ pc' = IF r \in ProtectedRoutes THEN "get_api_key" ELSE "handler"
    /\ UNCHANGED <<sp, handover, calls, response, tokenCache, provDevices>>

\* dependencies=[Depends(get_api_key)] is resolved before the handler's own
\* parameters.
GetApiKey ==
    /\ pc = "get_api_key"
    /\ LET r == get_api_key(api_key)
       IN  IF r.kind = "raise"
           THEN /\ response' = render(r)
                /\ pc' = "done"
           ELSE /\ response' = response
                /\ pc' = IF route \in ClientRoutes THEN "get_spotify_client"
                         ELSE "handler"
    /\ UNCHANGED <<reqVars, sp, handover, calls, tokenCache, provDevices>>

\* sp: Spotify = Depends(get_spotify_client)
GetSpotifyClient ==
    /\ pc = "get_spotify_client"
    /\ handover' = <<get_cached_token>>
    /\ LET r == get_spotify_client(get_cached_token)
       IN  IF r.kind = "raise"
           THEN /\ response' = render(r)
                /\ sp' = sp
                /\ pc' = "done"
           ELSE /\ response' = response
                /\ sp' = r.body
                /\ pc' = "handler"
    /\ UNCHANGED <<reqVars, calls, tokenCache, provDevices>>

\* async def root()
Root ==
    /\ pc = "handler" /\ route = "root"
    /\ response' = ok_response([message |-> "Welcome to the Meowseek Widget API"])
    /\ pc' = "done"
    /\ UNCHANGED <<reqVars, sp, handover, calls, tokenCache, provDevices>>

\* async def auth()
Auth ==
    /\ pc = "handler" /\ route = "auth"
    /\ response' = ok_response([auth_url |-> "authorize-url"])
    /\ pc' = "done"
    /\ UNCHANGED <<reqVars, sp, handover, calls, tokenCache, provDevices>>

\* async def callback(code); an exchange that yields a token needs a valid code.
Callback ==
    /\ pc = "handler" /\ route = "callback"
    /\ \E exchange \in {"token", "empty", "raise"} :
        /\ exchange = "token" => code = "good"
        /\ calls' = <<Call("get_access_token", code, exchange)>>
        /\ IF exchange = "token" THEN tokenCache' \in FreshTokenInfos
           ELSE tokenCache' = tokenCache
        /\ response' = render(callback(exchange))
    /\ pc' = "done"
    /\ UNCHANGED <<reqVars, sp, handover, provDevices>>

Finish(h) ==
    /\ calls' = h.calls
    /\ response' = render(h.result)
    /\ pc' = "done"
    /\ UNCHANGED <<reqVars, sp, handover, tokenCache, provDevices>>

PlaySong ==
    /\ pc = "handler" /\ route = "play"
    /\ \E devOut \in Outcomes, callOut \in Outcomes :
        Finish(play_song(devOut, sp_devices, device_id, callOut))

PauseSong ==
    /\ pc = "handler" /\ route = "pause"
    /\ \E devOut \in Outcomes, callOut \in Outcomes :
        Finish(pause_song(devOut, sp_devices, device_id, callOut))

NextSong ==
    /\ pc = "handler" /\ route = "next"
    /\ \E devOut \in Outcomes, callOut \in Outcomes :
        Finish(next_song(devOut, sp_devices, device_id, callOut))

PreviousSong ==
    /\ pc = "handler" /\ route = "previous"
    /\ \E devOut \in Outcomes, callOut \in Outcomes :
        Finish(previous_song(devOut, sp_devices, device_id, callOut))

GetDevices ==
    /\ pc = "handler" /\ route = "device"
    /\ \E devOut \in Outcomes : Finish(get_devices(devOut, sp_devices))

\* The response is sent; the server is ready for the next request.
Respond ==
    /\ pc = "done"
    /\ pc' = "idle"
    /\ route' = None /\ api_key' = None /\ device_id' = None /\ code' = None
    /\ sp' = <<>> /\ handover' = <<>> /\ calls' = <<>>
    /\ response' = NoResponse
    /\ UNCHANGED <<tokenCache, provDevices>>

\* Time passes the cached token's expiry: sp_oauth.is_token_expired turns true.
TokenExpires ==
    /\ tokenCache # <<>>
    /\ ~tokenCache[1].expired
    /\ tokenCache' = <<[tokenCache[1] EXCEPT !.expired = TRUE]>>
    /\ UNCHANGED <<pc, reqVars, sp, handover, calls, response, provDevices>>

\* The provider's device list changes: devices come, go, change activity.
DevicesChange ==
    /\ provDevices' \in DeviceLists \ {provDevices}
    /\ UNCHANGED <<pc, reqVars, sp, handover, calls, response, tokenCache>>

Next ==
    \/ Receive
    \/ GetApiKey
    \/ GetSpotifyClient
    \/ Root
    \/ Auth
    \/ Callback
    \/ PlaySong
    \/ PauseSong
    \/ NextSong
    \/ PreviousSong
    \/ GetDevices
    \/ Respond
    \/ TokenExpires
    \/ DevicesChange

Spec == Init /\ [][Next]_vars

TypeOK ==
    /\ pc \in {"idle", "get_api_key", "get_spotify_client", "handler", "done"}
    /\ route \in Routes \cup {None}
    /\ api_key \in HeaderValues
    /\ device_id \in RequestDeviceIds
    /\ code \in Codes \cup {None}
    /\ sp \in {<<>>} \cup { <<t>> : t \in Tokens }
    /\ tokenCache \in {<<>>} \cup { <<t>> : t \in TokenInfos }
    /\ provDevices \in DeviceLists
    /\ Len(calls) <= 2

(* ---------------------------------------------------------------- claims *)

MutatingOps == {"start_playback", "pause_playback", "next_track", "previous_track"}

MutatingCalls(log) == { k \in 1..Len(log) : log[k].op \in MutatingOps }

FetchCalls(log) == { k \in 1..Len(log) : log[k].op = "devices" }

FailedCalls(log) == { k \in 1..Len(log) : log[k].out # "ok" }

\* The step in which the route's handler runs, from its first line to its end.
HandlerRuns == pc = "handler" /\ pc' = "done"

KeyUnauthorized ==
    [status |-> 401,
     body |-> [detail |-> <<"Unauthorized. Invalid or missing API key.">>]]

AuthUnauthorized ==
    [status |-> 401, body |-> [detail |-> <<"Unauthorized. Please authenticate.">>]]

Matches(devices, did) == { k \in 1..Len(devices) : devices[k].id = did }

RouteOp(r) ==
    CASE r = "play" -> "start_playback"
      [] r = "pause" -> "pause_playback"
      [] r = "next" -> "next_track"
      [] OTHER -> "previous_track"

RouteMessage(r) ==
    CASE r = "play" -> "Playback started."
      [] r = "pause" -> "Playback paused."
      [] r = "next" -> "Skipped to the next song."
      [] OTHER -> "Went back to the previous song."

\* C1: on every protected route a request whose X-API-Key header is missing
\* or differs from API_KEY never gets past the key gate: it is answered 401,
\* no provider call is made and the token cache is not even read, whatever
\* token is cached; a request carrying API_KEY is never answered the key
\* gate's 401.
C1_KeyGate ==
    route \in ProtectedRoutes =>
        /\ api_key # API_KEY =>
            /\ pc \in {"get_api_key", "done"}
            /\ calls = <<>> /\ handover = <<>> /\ sp = <<>>
            /\ pc = "done" => response = KeyUnauthorized
        /\ api_key = API_KEY => response # KeyUnauthorized

C1_Witness ==
    /\ pc = "done" /\ route = "pause" /\ api_key = "wrong"
    /\ response.status = 401
    /\ tokenCache # <<>> /\ ~tokenCache[1].expired
    /\ provDevices # <<>>

\* C2: get_spotify_client answers 401 when the token it reads from the
\* cache is absent or expired and otherwise hands over a client bound to
\* that token's access token; so a handler of /play, /pause, /next,
\* /previous or /device only runs with a client whose token was cached and
\* not expired when get_spotify_client read it.
C2_ClientGate ==
    /\ handover # <<>> =>
        IF handover[1] = <<>> \/ handover[1][1].expired
        THEN /\ pc = "done" /\ response = AuthUnauthorized
             /\ sp = <<>> /\ calls = <<>>
        ELSE /\ sp = <<handover[1][1].access_token>>
             /\ response # AuthUnauthorized
    /\ (route \in ClientRoutes /\ (pc = "handler" \/ calls # <<>>)) =>
        /\ handover # <<>> /\ handover[1] # <<>>
        /\ ~handover[1][1].expired
        /\ sp = <<handover[1][1].access_token>>

C2_Witness ==
    /\ pc = "handler" /\ route = "play" /\ sp # <<>>
    /\ tokenCache # <<>> /\ tokenCache[1].expired

\* C3 (as claimed): a command handler issues its mutating provider call only
\* after the device list it fetched held a device with the request's
\* device_id (an active one, for /play), and issues none when device_id is
\* omitted, matches no fetched device or, for /play, matches only inactive
\* devices.
C3_Original ==
    [][(HandlerRuns /\ route \in CommandRoutes) =>
        /\ MutatingCalls(calls') # {} =>
            /\ calls'[1] = Call("devices", None, "ok")
            /\ \E k \in Matches(provDevices, device_id) :
                   route = "play" => provDevices[k].is_active
        /\ ( \/ device_id = None
             \/ Matches(provDevices, device_id) = {}
             \/ /\ route = "play"
                /\ \A k \in Matches(provDevices, device_id) :
                       ~provDevices[k].is_active )
           => MutatingCalls(calls') = {}
      ]_vars

\* C4 (as claimed): a device_id absent from the fetched list is answered
\* 404 "Device not found." and, on /play, a matching inactive device is
\* answered 400 "Device is not active."; neither is answered 500.
C4_Original ==
    [][(HandlerRuns /\ route \in CommandRoutes /\ calls'[1].out = "ok") =>
        /\ Matches(provDevices, device_id) = {} =>
               response' = [status |-> 404,
                            body |-> [detail |-> <<"Device not found.">>]]
        /\ ( /\ route = "play"
             /\ Matches(provDevices, device_id) # {}
             /\ \A k \in Matches(provDevices, device_id) :
                    ~provDevices[k].is_active )
           => response' = [status |-> 400,
                           body |-> [detail |-> <<"Device is not active.">>]]
      ]_vars

\* C5: when a command handler runs, the fetched list holds a device with
\* the request's device_id (for /play: the matched device is active) and no
\* provider call fails, the handler makes exactly the device-list fetch and
\* then the one call of its route with the request's device_id, and answers
\* the route's fixed message; /pause, /next and /previous do so for an
\* inactive device too.
C5_OneCallPerCommand ==
    [][( /\ HandlerRuns /\ route \in CommandRoutes
         /\ Matches(provDevices, device_id) # {}
         /\ route = "play" =>
              provDevices[CHOOSE k \in Matches(provDevices, device_id) :
                  \A j \in Matches(provDevices, device_id) : k <= j].is_active
         /\ FailedCalls(calls') = {} )
       => /\ calls' = <<Call("devices", None, "ok"),
                        Call(RouteOp(route), device_id, "ok")>>
          /\ response' = [status |-> 200,
                          body |-> [message |-> RouteMessage(route)]]
      ]_vars

C5_Witness ==
    /\ pc = "done" /\ route = "pause" /\ device_id = "dev1"
    /\ calls = <<Call("devices", None, "ok"), Call("pause_playback", "dev1", "ok")>>
    /\ response = [status |-> 200, body |-> [message |-> "Playback paused."]]
    /\ provDevices = <<[id |-> "dev1", name |-> "Kitchen", type |-> "Speaker",
                        is_active |-> FALSE]>>

\* C6: a request to /play, /pause, /next, /previous or /device makes at most
\* one device-list fetch and at most one mutating call; a call that fails is
\* the request's last call, and the response is 400 with the provider's
\* message embedded when the failure is a SpotifyException and 500 when it
\* is any other exception.
C6_NoRetry ==
    (route \in ClientRoutes /\ pc = "done") =>
        /\ Cardinality(FetchCalls(calls)) <= 1
        /\ Cardinality(MutatingCalls(calls)) <= 1
        /\ \A k \in FailedCalls(calls) :
            /\ k = Len(calls)
            /\ IF calls[k].out = "SpotifyException"
               THEN response = [status |-> 400,
                                body |-> [detail |-> <<"Spotify error: ",
                                                       "provider message">>]]
               ELSE response.status = 500

C6_Witness ==
    /\ pc = "done" /\ route = "play"
    /\ Len(calls) = 2 /\ calls[2] = Call("start_playback", "dev1", "SpotifyException")
    /\ response.status = 400

\* C7: when GET /device fetches the list successfully, an empty list is
\* answered {"message": "No devices found."} with no devices key, and any
\* other list is answered {"devices": L}, L as long as the provider's list,
\* in its order, each element holding exactly the id, name and type of the
\* corresponding device.
C7_DeviceProjection ==
    [][(HandlerRuns /\ route = "device" /\ calls'[1].out = "ok") =>
        /\ response'.status = 200
        /\ IF provDevices = <<>>
           THEN response'.body = [message |-> "No devices found."]
           ELSE /\ DOMAIN response'.body = {"devices"}
                /\ Len(response'.body.devices) = Len(provDevices)
                /\ \A k \in 1..Len(provDevices) :
                    LET d == response'.body.devices[k]
                    IN  /\ DOMAIN d = {"id", "name", "type"}
                        /\ d.id = provDevices[k].id
                        /\ d.name = provDevices[k].name
                        /\ d.type = provDevices[k].type
      ]_vars

C7_Witness ==
    /\ pc = "done" /\ route = "device"
    /\ response.status = 200
    /\ "devices" \in DOMAIN response.body
    /\ Len(response.body.devices) > 1
    /\ response.body.devices[1].id # response.body.devices[2].id

\* C8: right after GET /callback answers its success message, whatever the
\* cache held before (nothing, or a token since expired), get_spotify_client
\* does not fail and returns a client bound to the token just cached, which
\* is not the token cached before; GET /auth answers an authorization URL
\* and leaves the token cache as it was.
C8_AuthRoundTrip ==
    [][/\ ( /\ HandlerRuns /\ route = "callback"
            /\ response' = [status |-> 200, body |-> [message |->
                   "Authentication successful. You can now use the API."]] )
          => /\ tokenCache' # <<>>
             /\ tokenCache' # tokenCache
             /\ tokenCache # <<>> =>
                    tokenCache'[1].access_token # tokenCache[1].access_token
             /\ get_spotify_client(tokenCache') =
                    Return(<<tokenCache'[1].access_token>>)
       /\ (HandlerRuns /\ route = "auth")
          => /\ tokenCache' = tokenCache
             /\ response'.status = 200
             /\ DOMAIN response'.body = {"auth_url"}
      ]_vars

C8_Witness ==
    /\ pc = "done" /\ route = "callback" /\ code = "good"
    /\ response.status = 200
    /\ tokenCache # <<>> /\ ~tokenCache[1].expired

\* C9: when the exchange of GET /callback fails (it raises, or returns an
\* empty token) the response is 400, never the success message, and the
\* exchange was attempted once.
C9_BadExchange ==
    (pc = "done" /\ route = "callback") =>
        /\ Len(calls) = 1
        /\ calls[1].op = "get_access_token"
        /\ calls[1].out \in {"empty", "raise"} =>
            /\ response.status = 400
            /\ "message" \notin DOMAIN response.body

C9_Witness ==
    /\ pc = "done" /\ route = "callback"
    /\ calls = <<Call("get_access_token", "bad", "empty")>>
    /\ response.status = 400

\* C10: every command and /device handler makes its own device-list fetch,
\* first of all its calls, and what it then does is decided by the
\* provider's list at that moment: a command issues its mutating call
\* exactly if that list holds the device_id (first match active, for
\* /play), and /device answers the ids of that list.
C10_FreshDeviceList ==
    [][(HandlerRuns /\ route \in ClientRoutes) =>
        /\ calls' # <<>>
        /\ FetchCalls(calls') = {1}
        /\ calls'[1].out = "ok" =>
            /\ route \in CommandRoutes =>
                ( MutatingCalls(calls') # {}
                  <=> /\ first_matching_device(provDevices, device_id) # <<>>
                      /\ route = "play" =>
                           first_matching_device(provDevices, device_id)[1].is_active )
            /\ route = "device" =>
                IF provDevices = <<>> THEN "devices" \notin DOMAIN response'.body
                ELSE [k \in 1..Len(provDevices) |-> provDevices[k].id]
                     = [k \in 1..Len(response'.body.devices) |->
                            response'.body.devices[k].id]
      ]_vars

\* A command went through although the device it validated is gone from the
\* provider's list by now.
C10_Witness ==
    /\ pc = "done" /\ route = "previous" /\ device_id = "dev1"
    /\ MutatingCalls(calls) # {}
    /\ Matches(provDevices, device_id) = {}

====
